---- MODULE Spec2Model ----
(***************************************************************************)
(* Desert-ranch game and platformer controller.                            *)
(*                                                                         *)
(* Spec         the Engine running RanchGame: CowboyPlayer lives and       *)
(*              cooldown, the cactus hazards (Choya, BarrelCactus) with    *)
(*              their asynchronous model load, collisions and disposal     *)
(* SpecPlayer   CowboyPlayer.update and takeDamage called in any order     *)
(* SpecEffects  RanchGame.update with the spine effects and the wall clock *)
(* SpecPlatform the platformer Player falling onto its Platforms           *)
(* SpecControl  either controller under keyboard, mouse and touch input    *)
(* SpecAnimals  a Horse, Cow or Chicken wandering                          *)
(* SpecEngine   Engine.run, stop and dispose around the animation frames   *)
(* SpecMouse    the Input's mouse events between the animation frames      *)
(* SpecTick     RanchGame.update as a whole, its calls written down        *)
(* SpecFlash    the damage flash of the CowboyPlayer and its timers        *)
(* SpecJump     the CowboyPlayer jumping on the spot                       *)
(*                                                                         *)
(* RanchGame.update works on three groups of state that do not feed back   *)
(* into one another: the player with the hazards, the spine effects, and   *)
(* the animals.  Animate is the update of the first group, AnimateEffects  *)
(* of the first two, AnimalTick of the third.                              *)
(*                                                                         *)
(* Units: lengths are in 1/1000 of a world unit, times in milliseconds     *)
(* (the code's deltaTime is in seconds: 1.0 s = 1000), hazard sizes in     *)
(* 1/1000 of the scale factor, camera angles in 1/1000000 rad, the facing  *)
(* rotation in degrees, the animals' positions in 1/200 of a world unit.   *)
(* A controller moves only while its camera yaw is 0, so forward is        *)
(* (0,0,-1) and right is (1,0,0) in handleInput.                           *)
(***************************************************************************)
EXTENDS Integers, Sequences, FiniteSets, TLC

VARIABLES
    player,     \* CowboyPlayer: lives, damageCooldown, position, velocity.y, onGround
    hazards,    \* RanchGame.choyas followed by RanchGame.barrelCacti
    livesUI,    \* text of RanchGame.livesUI
    running,    \* Engine.game # null: the render loop drives RanchGame.update
    tick,       \* history: what the last RanchGame.update did
    last,       \* history: the last direct call on the player and its pre-state
    chain,      \* history: takeDamage() calls each < cooldown after the previous call
    win,        \* history: takeDamage() calls all < cooldown after the first call
    activeSpines,   \* RanchGame.activeSpines: the spine effects being faded
    meshSpines,     \* the spine meshes that are children of the player's mesh
    releasedSpines, \* the spine meshes whose geometry and material were disposed
    now,            \* Date.now(), in ms since RanchGame.init
    spawnLog,       \* history: the startTime of every spine created so far
    scene,          \* which controller is driven: "ranch" or "platform"
    plat,           \* platformer Player: position, velocity.y, onGround, rotation, camera
    platforms,      \* the bounds of the platformer's Platforms, in list order
    ctl,            \* history: the last controller update, step by step
    animal,         \* a Horse, Cow or Chicken: position, wanderDirection, wanderTimer
    atick,          \* history: the last update of the animal
    engine,         \* Engine: game, lastTime, animationId
    input,          \* Input.mouse: locked, movementX, movementY
    raf,            \* the browser's animation-frame callbacks
    games,          \* the games given to Engine.run
    clock,          \* the browser's time, in ms since the page was loaded
    elog,           \* history: the render loop's last call and frame
    body,           \* the colour of the CowboyPlayer's body material
    timers,         \* the setTimeout callbacks of takeDamage not yet run
    trace           \* history: the calls of the last RanchGame.update, in order

effectVars == <<activeSpines, meshSpines, releasedSpines, now, spawnLog>>

platVars == <<scene, plat, platforms, ctl>>

animalVars == <<animal, atick>>

engineVars == <<engine, input, raf, games, clock, elog>>

flashVars == <<body, timers>>

vars ==
    <<player, hazards, livesUI, running, tick, last, chain, win,
      effectVars, platVars, animalVars, engineVars, flashVars, trace>>

----------------------------------------------------------------------------
(* Program constants *)

speed == 120
jumpForce == 400
gravity == -15
groundY == 300
damageCooldownTime == 1000
getRadius == 400
maxLives == 3
diagonalStep == 85      \* speed / sqrt(2), rounded

\* camera angles are in 1/1000000 rad
cameraRotationX0 == 300000
pitchLimit == 1047198   \* Math.PI / 3, rounded
mouseSensitivity == 2000
touchSensitivity == 5000

\* Player of the platformer
Player_speed == 100
Player_jumpForce == 400
Player_gravity == -15
Player_diagonalStep == 71   \* Player_speed / sqrt(2), rounded
Player_startY == 2000
deathFloorY == -10000
respawnY == 5000
playerBottomOffset == 300
playerRadius == 500

choyaBaseRadius == 1200
barrelBaseRadius == 600
choyaCenterY == 600
barrelCenterFactor == 300

----------------------------------------------------------------------------
(* Bounds of the model *)

\* the player is kept within |x| <= ArenaMax and |z| <= ArenaMax
ArenaMax == 480

\* frame deltaTimes (ms) the render loop hands to update
DeltaTimes == {0, 250, 750, 1000}

\* keys held during a frame, in the program specification
KeySets == SUBSET {"KeyA", "KeyD"}

\* The level: choyas first, then barrel cacti, in RanchGame's iteration
\* order.  Positions lie on the x axis close to the player's start so that
\* the player walks into one, two or three hazards within the arena.
Level ==
    << [kind |-> "choya",  x |-> 840,  z |-> 0, size |-> 350],
       [kind |-> "choya",  x |-> 1080, z |-> 0, size |-> 350],
       [kind |-> "barrel", x |-> 360,  z |-> 0, size |-> 50] >>

HazardIds == 1..Len(Level)

\* probe positions and radii for checkCollision
ProbeXs == {0, 360, 840, 1080}
ProbeYs == {0, 300, 600}
ProbeRadii == {0, 400, 5000}

----------------------------------------------------------------------------
(* CowboyPlayer *)

NewPlayer ==
    [lives |-> maxLives, damageCooldown |-> 0,
     x |-> 0, y |-> groundY, z |-> 0, vy |-> 0, onGround |-> FALSE,
     rotation |-> 0, cameraRotationX |-> cameraRotationX0, cameraRotationY |-> 0]

\* takeDamage without the lives > 0 test
takeDamage_noLivesGuard(p) ==
    IF p.damageCooldown <= 0
    THEN [p EXCEPT !.lives = @ - 1, !.damageCooldown = damageCooldownTime]
    ELSE p

\* takeDamage without the cooldown test
takeDamage_noCooldownGuard(p) ==
    IF p.lives > 0
    THEN [p EXCEPT !.lives = @ - 1, !.damageCooldown = damageCooldownTime]
    ELSE p

\* takeDamage that does not restart the cooldown
takeDamage_noCooldownReset(p) ==
    IF p.damageCooldown <= 0 /\ p.lives > 0
    THEN [p EXCEPT !.lives = @ - 1]
    ELSE p

\* takeDamage that restarts the cooldown at half its duration
takeDamage_halfCooldown(p) ==
    IF p.damageCooldown <= 0 /\ p.lives > 0
    THEN [p EXCEPT !.lives = @ - 1, !.damageCooldown = damageCooldownTime \div 2]
    ELSE p

\* takeDamage that refills the lives of a dead player
takeDamage_revive(p) ==
    IF p.damageCooldown <= 0 /\ p.lives > 0
    THEN [p EXCEPT !.lives = @ - 1, !.damageCooldown = damageCooldownTime]
    ELSE IF p.lives = 0 THEN [p EXCEPT !.lives = maxLives] ELSE p

takeDamage(p) ==
    IF p.damageCooldown <= 0 /\ p.lives > 0
    THEN [p EXCEPT !.lives = @ - 1, !.damageCooldown = damageCooldownTime]
    ELSE p

\* the cooldown decrement floored at 0
updateCooldown_floored(p, dt) ==
    IF p.damageCooldown > 0
    THEN [p EXCEPT !.damageCooldown = IF @ - dt < 0 THEN 0 ELSE @ - dt]
    ELSE p

\* the cooldown decrement running twice as fast
updateCooldown_double(p, dt) ==
    IF p.damageCooldown > 0
    THEN [p EXCEPT !.damageCooldown = @ - 2 * dt]
    ELSE p

\* first statement of CowboyPlayer.update
updateCooldown(p, dt) ==
    IF p.damageCooldown > 0
    THEN [p EXCEPT !.damageCooldown = @ - dt]
    ELSE p

\* moveDirection from the keyboard
moveX(keys) == (IF "KeyD" \in keys THEN 1 ELSE 0) - (IF "KeyA" \in keys THEN 1 ELSE 0)
moveZ(keys) == (IF "KeyW" \in keys THEN 1 ELSE 0) - (IF "KeyS" \in keys THEN 1 ELSE 0)

\* what Input and MobileInput answer during one frame: the keys held, whether
\* the mobile controls are active, getJoystickVector() in 1/1000,
\* isJumpPressed(), isPointerLocked(), getMouseDelta() and getCameraDelta()
KeysOnly(keys) ==
    [keys |-> keys, mobile |-> FALSE, joystick |-> <<0, 0>>, jump |-> FALSE,
     locked |-> FALSE, mouse |-> <<0, 0>>, touch |-> <<0, 0>>]

Sgn(n) == IF n > 0 THEN 1 ELSE IF n < 0 THEN -1 ELSE 0

\* moveDirection before it is normalized
moveDirection(in) ==
    IF in.mobile THEN in.joystick ELSE <<moveX(in.keys), moveZ(in.keys)>>

\* Math.atan2(wx, wz) in degrees, for a direction along an axis or a diagonal
atan2Deg(wx, wz) ==
    CASE wx = 0  /\ wz = 1  -> 0
      [] wx = 1  /\ wz = 1  -> 45
      [] wx = 1  /\ wz = 0  -> 90
      [] wx = 1  /\ wz = -1 -> 135
      [] wx = 0  /\ wz = -1 -> 180
      [] wx = -1 /\ wz = -1 -> -135
      [] wx = -1 /\ wz = 0  -> -90
      [] wx = -1 /\ wz = 1  -> -45
      [] OTHER -> 0

\* the movement part of handleInput without its length() > 0 test
moveStep_noGuard(p, in, spd, diag) ==
    LET d == moveDirection(in)
        mx == Sgn(d[1])
        mz == Sgn(d[2])
        step == IF mx # 0 /\ mz # 0 THEN diag ELSE spd
    IN  [p EXCEPT !.x = @ + mx * step, !.z = @ - mz * step,
                  !.rotation = atan2Deg(mx, -mz)]

\* the movement part of handleInput, the camera looking along -z: the
\* normalized direction is a sign vector (the joystick is along an axis or
\* a diagonal), forward is (0,0,-1) and right is (1,0,0)
moveStep(p, in, spd, diag) ==
    LET d == moveDirection(in)
        mx == Sgn(d[1])
        mz == Sgn(d[2])
        step == IF mx # 0 /\ mz # 0 THEN diag ELSE spd
    IN  IF d # <<0, 0>>
        THEN [p EXCEPT !.x = @ + mx * step, !.z = @ - mz * step,
                       !.rotation = atan2Deg(mx, -mz)]
        ELSE p

shouldJump(in) == IF in.mobile THEN in.jump ELSE "Space" \in in.keys

\* the jump part of handleInput without its onGround test
jumpStep_midair(p, in, jf) ==
    IF shouldJump(in) THEN [p EXCEPT !.vy = jf, !.onGround = FALSE] ELSE p

\* the jump part of handleInput
jumpStep(p, in, jf) ==
    IF shouldJump(in) /\ p.onGround
    THEN [p EXCEPT !.vy = jf, !.onGround = FALSE]
    ELSE p

\* Math.max(-Math.PI / 3, Math.min(Math.PI / 3, a))
clampPitch(a) ==
    LET low == IF a < pitchLimit THEN a ELSE pitchLimit
    IN  IF low > -pitchLimit THEN low ELSE -pitchLimit

\* the camera part of handleInput without the clamp
cameraStep_noClamp(p, in) ==
    IF in.mobile
    THEN [p EXCEPT !.cameraRotationY = @ - in.touch[1] * touchSensitivity,
                   !.cameraRotationX = @ - in.touch[2] * touchSensitivity]
    ELSE IF in.locked
         THEN [p EXCEPT !.cameraRotationY = @ - in.mouse[1] * mouseSensitivity,
                        !.cameraRotationX = @ - in.mouse[2] * mouseSensitivity]
         ELSE p

\* the camera part of handleInput
cameraStep(p, in) ==
    IF in.mobile
    THEN [p EXCEPT !.cameraRotationY = @ - in.touch[1] * touchSensitivity,
                   !.cameraRotationX = clampPitch(@ - in.touch[2] * touchSensitivity)]
    ELSE IF in.locked
         THEN [p EXCEPT !.cameraRotationY = @ - in.mouse[1] * mouseSensitivity,
                        !.cameraRotationX = clampPitch(@ - in.mouse[2] * mouseSensitivity)]
         ELSE p

handleInput(p, in) ==
    cameraStep(jumpStep(moveStep(p, in, speed, diagonalStep), in, jumpForce), in)

applyPhysics_moveFirst(p) ==
    [p EXCEPT !.vy = p.vy + gravity, !.y = p.y + p.vy]

applyPhysics(p) ==
    [p EXCEPT !.vy = p.vy + gravity, !.y = p.y + (p.vy + gravity)]

checkGroundCollision(p) ==
    IF p.y <= groundY
    THEN [p EXCEPT !.y = groundY, !.vy = 0, !.onGround = TRUE]
    ELSE [p EXCEPT !.onGround = FALSE]

CowboyPlayer_update(p, dt, in) ==
    checkGroundCollision(applyPhysics(handleInput(updateCooldown(p, dt), in)))

----------------------------------------------------------------------------
(* Choya and BarrelCactus *)

baseRadius(kind) == IF kind = "choya" THEN choyaBaseRadius ELSE barrelBaseRadius

\* constructor, up to the first await of loadModel: found is whether
\* assetLoader.getUrl returned a URL.  threw is whether an error left
\* loadModel (its promise rejected): the try block spans the whole body, so
\* no path of the code sets it.  disposed and disposedInFlight record that
\* dispose() ran, and that it ran while the load was pending.
NewHazard(cfg, found) ==
    [kind |-> cfg.kind, x |-> cfg.x, z |-> cfg.z, size |-> cfg.size,
     collisionRadius |-> baseRadius(cfg.kind),
     mesh |-> FALSE, modelLoaded |-> FALSE, inScene |-> FALSE,
     load |-> IF found THEN "pending" ELSE "notfound",
     threw |-> FALSE, disposed |-> FALSE, disposedInFlight |-> FALSE]

\* loadModel after loadAsync resolved
loadModel_resolved(hz) ==
    [hz EXCEPT !.mesh = TRUE,
               !.collisionRadius = (baseRadius(hz.kind) * hz.size) \div 1000,
               !.inScene = TRUE,
               !.modelLoaded = TRUE,
               !.load = "resolved"]

\* a rejected load that still marks the hazard loaded
loadModel_rejected_marksLoaded(hz) == [hz EXCEPT !.load = "failed", !.modelLoaded = TRUE, !.mesh = TRUE]

\* loadModel after loadAsync rejected: the catch block logs
loadModel_rejected(hz) == [hz EXCEPT !.load = "failed"]

\* y of the collision centre: mesh.position.y is 0
centerY(hz) ==
    IF hz.kind = "choya" THEN choyaCenterY
    ELSE (barrelCenterFactor * hz.size) \div 1000

\* distance < collisionRadius + playerRadius, compared as squares
withinReach(hz, px, py, pz, r) ==
    LET dx == hz.x - px
        dy == centerY(hz) - py
        dz == hz.z - pz
        reach == hz.collisionRadius + r
    IN  dx * dx + dy * dy + dz * dz < reach * reach

\* checkCollision without the loaded test
checkCollision_noLoadGuard(hz, px, py, pz, r) == withinReach(hz, px, py, pz, r)

checkCollision(hz, px, py, pz, r) ==
    IF ~hz.mesh \/ ~hz.modelLoaded THEN FALSE
    ELSE withinReach(hz, px, py, pz, r)

hazard_dispose(hz) ==
    [hz EXCEPT !.inScene = IF hz.mesh THEN FALSE ELSE @,
               !.disposed = TRUE,
               !.disposedInFlight = (hz.load = "pending")]

----------------------------------------------------------------------------
(* RanchGame *)

\* updateLivesUI: the text shown for the player's lives
livesText(p) ==
    IF p.lives <= 0
    THEN [text |-> "GameOver", n |-> 0]
    ELSE [text |-> "Vidas", n |-> p.lives]

\* the two collision loops of RanchGame.update, from hazard i on; acc carries
\* the player, the UI text and the record of the takeDamage() calls made
RECURSIVE collisionLoop(_, _, _)
collisionLoop(i, hz, acc) ==
    IF i > Len(Level) THEN acc
    ELSE IF checkCollision(hz[i], acc.player.x, acc.player.y, acc.player.z, getRadius)
         THEN LET p2 == takeDamage(acc.player)
              IN  collisionLoop(i + 1, hz,
                      [player  |-> p2,
                       livesUI |-> livesText(p2),
                       results |-> Append(acc.results, p2 # acc.player),
                       hits    |-> acc.hits \cup {i}])
         ELSE collisionLoop(i + 1, hz, acc)

RanchGame_update_staleUI(p, hz, ui, dt, in) ==
    [collisionLoop(1, hz,
        [player  |-> CowboyPlayer_update(p, dt, in),
         livesUI |-> ui,
         results |-> << >>,
         hits    |-> {}]) EXCEPT !.livesUI = ui]

RanchGame_update(p, hz, ui, dt, in) ==
    collisionLoop(1, hz,
        [player  |-> CowboyPlayer_update(p, dt, in),
         livesUI |-> ui,
         results |-> << >>,
         hits    |-> {}])

----------------------------------------------------------------------------
(* Player and Platform of the platformer *)

\* Player constructor
Player_NewPlayer ==
    [x |-> 0, y |-> Player_startY, z |-> 0, vy |-> 0, onGround |-> FALSE,
     rotation |-> 0, cameraRotationX |-> cameraRotationX0, cameraRotationY |-> 0]

\* Platform constructor: the bounds of a box of size (sx, sy, sz) centred
\* at (x, y, z)
Platform_bounds(cfg) ==
    [minX |-> cfg.x - cfg.sx \div 2, maxX |-> cfg.x + cfg.sx \div 2,
     minY |-> cfg.y - cfg.sy \div 2, maxY |-> cfg.y + cfg.sy \div 2,
     minZ |-> cfg.z - cfg.sz \div 2, maxZ |-> cfg.z + cfg.sz \div 2]

Player_handleInput(p, in) ==
    cameraStep(jumpStep(moveStep(p, in, Player_speed, Player_diagonalStep),
                        in, Player_jumpForce), in)

\* applyPhysics without the reset of a fallen player
Player_applyPhysics_noRespawn(p) ==
    [p EXCEPT !.vy = p.vy + Player_gravity, !.y = p.y + (p.vy + Player_gravity)]

Player_applyPhysics(p) ==
    LET q == [p EXCEPT !.vy = p.vy + Player_gravity,
                       !.y = p.y + (p.vy + Player_gravity)]
    IN  IF q.y < deathFloorY
        THEN [q EXCEPT !.x = 0, !.y = respawnY, !.z = 0, !.vy = 0]
        ELSE q

\* the horizontal overlap test of checkCollisions
overlapsXZ(p, b) ==
    /\ p.x + playerRadius > b.minX
    /\ p.x - playerRadius < b.maxX
    /\ p.z + playerRadius > b.minZ
    /\ p.z - playerRadius < b.maxZ

\* the landing test of checkCollisions
landsOn(p, b) ==
    /\ overlapsXZ(p, b)
    /\ p.y - playerBottomOffset <= b.maxY
    /\ p.y - playerBottomOffset >= b.minY
    /\ p.vy <= 0

\* the loop of checkCollisions from bound i on; acc carries the player and
\* the bounds that passed the landing test
RECURSIVE platformLoop(_, _, _)
platformLoop(i, bs, acc) ==
    IF i > Len(bs) THEN acc
    ELSE IF landsOn(acc.p, bs[i])
         THEN platformLoop(i + 1, bs,
                  [p |-> [acc.p EXCEPT !.y = bs[i].maxY + playerBottomOffset,
                                       !.vy = 0, !.onGround = TRUE],
                   landed |-> acc.landed \cup {i}])
         ELSE platformLoop(i + 1, bs, acc)

\* checkCollisions that lands without moving the player onto the bound
Player_checkCollisions_noSnap(p, bs) ==
    LET q == [p EXCEPT !.onGround = FALSE]
    IN  IF \E i \in 1..Len(bs) : landsOn(q, bs[i])
        THEN [q EXCEPT !.vy = 0, !.onGround = TRUE]
        ELSE q

\* checkCollisions that does not clear onGround first
Player_checkCollisions_sticky(p, bs) ==
    platformLoop(1, bs, [p |-> p, landed |-> {}]).p

Player_checkCollisions(p, bs) ==
    platformLoop(1, bs, [p |-> [p EXCEPT !.onGround = FALSE], landed |-> {}]).p

\* the bounds that pass the landing test during checkCollisions
landedOn(p, bs) ==
    platformLoop(1, bs, [p |-> [p EXCEPT !.onGround = FALSE], landed |-> {}]).landed

Player_update(p, in, bs) ==
    Player_checkCollisions(Player_applyPhysics(Player_handleInput(p, in)), bs)

----------------------------------------------------------------------------
(* Horse, Cow and Chicken.  Lengths are in 1/200 of a world unit.  A
   wanderDirection is held as a vector <<a, b>> and stands for the angle
   Math.atan2(a, b), whose sine is a / |<<a, b>>| and cosine b / |<<a, b>>|. *)

maxDistance == 16000

\* per species: the least threshold of the wander timer and the width of its
\* random part (ms), and the speed
Species ==
    [horse   |-> [least |-> 3000, width |-> 4000, speed |-> 4],
     cow     |-> [least |-> 4000, width |-> 5000, speed |-> 2],
     chicken |-> [least |-> 1000, width |-> 2000, speed |-> 3]]

\* Math.random() * Math.PI * 2, for the draws 0, 1/4, 1/2 and 3/4
Headings == {<<0, 1>>, <<1, 0>>, <<0, -1>>, <<-1, 0>>}

\* Math.sqrt, rounded down
RECURSIVE SqrtFrom(_, _)
SqrtFrom(n, r) ==
    LET r2 == (r + n \div r) \div 2
    IN  IF r2 >= r THEN r ELSE SqrtFrom(n, r2)
Sqrt(n) == IF n = 0 THEN 0 ELSE SqrtFrom(n, n)

\* q / d rounded to the nearest integer
Rounded(q, d) == (2 * q + d) \div (2 * d)

\* Math.sin(dir) * speed and Math.cos(dir) * speed
stride(dir, spd) ==
    LET norm == Sqrt(dir[1] * dir[1] + dir[2] * dir[2])
    IN  <<Rounded(dir[1] * spd, norm), Rounded(dir[2] * spd, norm)>>

\* distanceFromOrigin > maxDistance
beyondRange(a) == a.x * a.x + a.z * a.z > maxDistance * maxDistance

\* the wander part of update with a timer that triggers at the threshold
wander_atThreshold(a, dt, rnd, h) ==
    LET t == a.wanderTimer + dt
        threshold == Species[a.species].least + (rnd * Species[a.species].width) \div 1000
    IN  IF t >= threshold
        THEN [a EXCEPT !.wanderDirection = h, !.wanderTimer = 0]
        ELSE [a EXCEPT !.wanderTimer = t]

\* the wander part of update: the timer, and a new direction h when the
\* timer passed the threshold drawn with rnd
wander(a, dt, rnd, h) ==
    LET t == a.wanderTimer + dt
        threshold == Species[a.species].least + (rnd * Species[a.species].width) \div 1000
    IN  IF t > threshold
        THEN [a EXCEPT !.wanderDirection = h, !.wanderTimer = 0]
        ELSE [a EXCEPT !.wanderTimer = t]

\* the move part of update
advance(a) ==
    LET d == stride(a.wanderDirection, Species[a.species].speed)
    IN  [a EXCEPT !.x = @ + d[1], !.z = @ + d[2]]

\* update that never turns back
Animal_update_noTurn(a, dt, rnd, h) == advance(wander(a, dt, rnd, h))

\* Horse.update, Cow.update and Chicken.update
Animal_update(a, dt, rnd, h) ==
    LET b == advance(wander(a, dt, rnd, h))
    IN  IF beyondRange(b)
        THEN [b EXCEPT !.wanderDirection = <<-b.x, -b.z>>]
        ELSE b

----------------------------------------------------------------------------
(* Spine effects of RanchGame.  A spine is named by its rank in creation
   order; opacity is in 1/fadeDuration, so that 1.0 is fadeDuration. *)

fadeDuration == 3000

\* Math.random(), in 1/1000
Randoms == {0, 999}

\* createSpineEffect: the number of spines a hazard of this kind sticks to
\* the player, rnd being the value Math.random() returned
createSpineEffect(kind, rnd) ==
    IF kind = "choya" THEN 3 + (rnd * 3) \div 1000 ELSE 1 + (rnd * 2) \div 1000

\* fx with n more spines created at time t, added to the player's mesh and
\* pushed on activeSpines
pushSpines(fx, n, t) ==
    LET first == Len(fx.log)
        ids == (first + 1)..(first + n)
    IN  [active   |-> fx.active \o [k \in 1..n |->
                          [id |-> first + k, startTime |-> t,
                           fadeDuration |-> fadeDuration, opacity |-> fadeDuration]],
         mesh     |-> fx.mesh \cup ids,
         released |-> fx.released,
         log      |-> fx.log \o [k \in 1..n |-> t]]

\* the spawn part of the two collision loops: every hazard of hits, in list
\* order, sticks its spines at time t
RECURSIVE spawnLoop(_, _, _, _, _)
spawnLoop(i, hits, rnd, t, fx) ==
    IF i > Len(Level) THEN fx
    ELSE IF i \in hits
         THEN spawnLoop(i + 1, hits, rnd, t,
                        pushSpines(fx, createSpineEffect(Level[i].kind, rnd[i]), t))
         ELSE spawnLoop(i + 1, hits, rnd, t, fx)

\* the fade loop with a last tick that never expires a spine
fadeSpines_keepLast(fx, t) ==
    LET Expired(s) == t - s.startTime > s.fadeDuration
        gone == {fx.active[k].id : k \in {j \in 1..Len(fx.active) : Expired(fx.active[j])}}
        Faded(s) == [s EXCEPT !.opacity = s.fadeDuration - (t - s.startTime)]
        kept == SelectSeq(fx.active, LAMBDA s : ~Expired(s))
    IN  [active   |-> [k \in 1..Len(kept) |-> Faded(kept[k])],
         mesh     |-> fx.mesh \ gone,
         released |-> fx.released \cup gone,
         log      |-> fx.log]

\* the fade loop of RanchGame.update at time t: an expired spine leaves the
\* player's mesh, is disposed and spliced out, any other gets its opacity
fadeSpines(fx, t) ==
    LET Expired(s) == t - s.startTime >= s.fadeDuration
        gone == {fx.active[k].id : k \in {j \in 1..Len(fx.active) : Expired(fx.active[j])}}
        Faded(s) == [s EXCEPT !.opacity = s.fadeDuration - (t - s.startTime)]
        kept == SelectSeq(fx.active, LAMBDA s : ~Expired(s))
    IN  [active   |-> [k \in 1..Len(kept) |-> Faded(kept[k])],
         mesh     |-> fx.mesh \ gone,
         released |-> fx.released \cup gone,
         log      |-> fx.log]

\* the spine part of RanchGame.dispose that leaves activeSpines as it is
disposeSpines_keepList(fx) ==
    LET all == {fx.active[k].id : k \in 1..Len(fx.active)}
    IN  [fx EXCEPT !.mesh = @ \ all, !.released = @ \cup all]

\* the spine part of RanchGame.dispose
disposeSpines(fx) ==
    LET all == {fx.active[k].id : k \in 1..Len(fx.active)}
    IN  [active   |-> << >>,
         mesh     |-> fx.mesh \ all,
         released |-> fx.released \cup all,
         log      |-> fx.log]

\* the effect fields as one record
Effects ==
    [active |-> activeSpines, mesh |-> meshSpines,
     released |-> releasedSpines, log |-> spawnLog]

\* history records
NoTick ==
    [n |-> 0, lives |-> maxLives, cd |-> 0, results |-> << >>,
     hits |-> {}, near |-> {}, loaded |-> {}]
NoCall == [op |-> "none", lives |-> maxLives, cd |-> 0, dt |-> 0]
NoChain == [base |-> -1, since |-> 0, multi |-> FALSE]
NoAnimal ==
    [species |-> "horse", x |-> 0, z |-> 0, wanderDirection |-> <<0, 1>>, wanderTimer |-> 0]
NoAnimalTick == [t |-> 0, pre |-> NoAnimal, moved |-> NoAnimal, dt |-> 0, rnd |-> 0]
NoCtl ==
    [t |-> 0, idle |-> TRUE, in |-> KeysOnly({}), pre |-> Player_NewPlayer,
     mid |-> Player_NewPlayer, phys |-> Player_NewPlayer, landed |-> {},
     start |-> Player_NewPlayer]

----------------------------------------------------------------------------
(* Engine and Input: the render loop, the browser's animation frames and   *)
(* the pointer-locked mouse.  A game is known by its number, 0 is null.    *)

MaxGames == 2
MaxFrames == 4
MaxMoves == 2
PageLoad == 100
GameIds == 1 .. MaxGames
FrameGaps == {0, 16, 33}
MouseMoves == {<<1, 0>>, <<2, -1>>}

\* the fields of a new Engine
NewEngine == [game |-> 0, lastTime |-> 0, animationId |-> 0]

\* Input.mouse of a new Input
NewInput == [locked |-> FALSE, movementX |-> 0, movementY |-> 0]

\* the browser's animation frames: the callbacks waiting, the last id given
NewRaf == [pending |-> {}, issued |-> 0]

\* a game nobody has run: how often it was updated and disposed, the
\* deltaTime and mouse delta of its last update, the updates after a dispose
NewGame ==
    [started |-> FALSE, updates |-> 0, disposed |-> 0, late |-> 0,
     deltaTime |-> 0, mouse |-> <<0, 0>>]

requestAnimationFrame(r) ==
    [pending |-> r.pending \cup {r.issued + 1}, issued |-> r.issued + 1]

cancelAnimationFrame(r, id) == [r EXCEPT !.pending = @ \ {id}]

\* Input's mousemove listener
mousemove(i, e) ==
    IF i.locked THEN [i EXCEPT !.movementX = e[1], !.movementY = e[2]] ELSE i

getMouseDelta(i) == <<i.movementX, i.movementY>>

resetMouseDelta(i) == [i EXCEPT !.movementX = 0, !.movementY = 0]

deltaTime_unguarded(lastTime, time) == time - lastTime

\* the deltaTime of Engine.animate, in ms
deltaTime(lastTime, time) == IF lastTime # 0 THEN time - lastTime ELSE 0

\* game.update(deltaTime) as the engine sees it: the controller reads the
\* mouse delta while the pointer is locked
Game_update(g, dt, i) ==
    [g EXCEPT !.updates = @ + 1,
              !.late = IF g.disposed > 0 THEN @ + 1 ELSE @,
              !.deltaTime = dt,
              !.mouse = IF i.locked THEN getMouseDelta(i) ELSE <<0, 0>>]

\* Engine.animate on w = [engine, input, raf, games]
animate(w, time) ==
    LET r == requestAnimationFrame(w.raf)
        dt == deltaTime(w.engine.lastTime, time)
        g == w.engine.game
    IN  [engine |-> [w.engine EXCEPT !.animationId = r.issued, !.lastTime = time],
         raf |-> r,
         games |-> IF g # 0
                   THEN [w.games EXCEPT ![g] = Game_update(@, dt, w.input)]
                   ELSE w.games,
         input |-> resetMouseDelta(w.input)]

Engine_stop_keepFrame(w) ==
    [w EXCEPT !.engine = [@ EXCEPT !.animationId = 0, !.game = 0],
              !.games = IF w.engine.game # 0
                        THEN [@ EXCEPT ![w.engine.game].disposed = @ + 1]
                        ELSE @]

\* Engine.stop
Engine_stop(w) ==
    [w EXCEPT !.engine = [@ EXCEPT !.animationId = 0, !.game = 0],
              !.raf = IF w.engine.animationId # 0
                      THEN cancelAnimationFrame(@, w.engine.animationId)
                      ELSE @,
              !.games = IF w.engine.game # 0
                        THEN [@ EXCEPT ![w.engine.game].disposed = @ + 1]
                        ELSE @]

\* Engine.run
Engine_run(w, g) ==
    LET s == IF w.engine.game # 0 THEN Engine_stop(w) ELSE w
    IN  animate([s EXCEPT !.engine = [@ EXCEPT !.game = g, !.lastTime = 0],
                          !.games = [@ EXCEPT ![g].started = TRUE]], 0)

\* Engine.dispose: Input.dispose removes no listener
Engine_dispose(w) == Engine_stop(w)

\* history of the render loop: the last call, the number of frames since
\* run, the timestamp of the last frame and of the frame before it, the
\* game it updated, whether stop or dispose found no game, whether run has
\* replaced a running game, whether the pointer was locked at the frame, the
\* mousemove events since the last reset and their sum, and the same at the
\* last frame
NoFrame ==
    [op |-> "new", n |-> 0, time |-> 0, prev |-> 0, game |-> 0, idle |-> FALSE,
     replaced |-> FALSE, locked |-> FALSE, moves |-> 0, sum |-> <<0, 0>>, seenMoves |-> 0, seenSum |-> <<0, 0>>]

World == [engine |-> engine, input |-> input, raf |-> raf, games |-> games]

\* the engine, not driven
EngineAside ==
    /\ engine = NewEngine
    /\ input = NewInput
    /\ raf = NewRaf
    /\ games = [g \in GameIds |-> NewGame]
    /\ clock = PageLoad
    /\ elog = NoFrame

\* the body colour of a new CowboyPlayer and the colour of the damage flash
bodyColor == "8b4513"
flashColor == "ff0000"

\* the delay of the timer that ends the flash, in ms
flashDelay == 200

\* the player's body as constructed, no timer set
FlashAside ==
    /\ body = bodyColor
    /\ timers = {}

\* history of a RanchGame.update: its calls in order, the random numbers of
\* the hazards, the spines created before it, Date.now() during it, the
\* player before it
NoTrace == [calls |-> << >>, rnd |-> << >>, before |-> 0, at |-> 0, pre |-> NewPlayer]

----------------------------------------------------------------------------

Init ==
    /\ player = NewPlayer
    /\ \E assets \in SUBSET {"choya", "barrel"} :
           hazards = [h \in HazardIds |-> NewHazard(Level[h], Level[h].kind \in assets)]
    /\ livesUI = livesText(NewPlayer)
    /\ running = TRUE
    /\ tick = NoTick
    /\ last = NoCall
    /\ chain = NoChain
    /\ win = NoChain
    /\ activeSpines = << >>
    /\ meshSpines = {}
    /\ releasedSpines = {}
    /\ now = 0
    /\ spawnLog = << >>
    /\ scene = "ranch"
    /\ plat = Player_NewPlayer
    /\ platforms = << >>
    /\ ctl = NoCtl
    /\ animal = NoAnimal
    /\ atick = NoAnimalTick
    /\ EngineAside
    /\ FlashAside
    /\ trace = NoTrace

\* Engine.animate with a game: one RanchGame.update, as far as the player,
\* the hazards and the lives display go
Animate ==
    /\ running
    /\ \E dt \in DeltaTimes, keys \in KeySets :
         LET moved == CowboyPlayer_update(player, dt, KeysOnly(keys))
             res == RanchGame_update(player, hazards, livesUI, dt, KeysOnly(keys))
         IN  /\ moved.x >= -ArenaMax /\ moved.x <= ArenaMax
             /\ moved.z >= -ArenaMax /\ moved.z <= ArenaMax
             /\ player' = res.player
             /\ livesUI' = res.livesUI
             /\ tick' = [n |-> 1, lives |-> moved.lives, cd |-> moved.damageCooldown,
                         results |-> res.results, hits |-> res.hits,
                         near |-> {h \in HazardIds :
                                     withinReach(hazards[h], moved.x, moved.y, moved.z, getRadius)},
                         loaded |-> {h \in HazardIds : hazards[h].modelLoaded}]
    /\ UNCHANGED <<hazards, running, last, chain, win>>
    /\ UNCHANGED <<effectVars, platVars, animalVars, engineVars, flashVars, trace>>

\* the GLTF load of hazard h resolves
LoadResolve(h) ==
    /\ hazards[h].load = "pending"
    /\ hazards' = [hazards EXCEPT ![h] = loadModel_resolved(@)]
    /\ UNCHANGED <<player, livesUI, running, tick, last, chain, win>>
    /\ UNCHANGED <<effectVars, platVars, animalVars, engineVars, flashVars, trace>>

\* the GLTF load of hazard h rejects
LoadReject(h) ==
    /\ hazards[h].load = "pending"
    /\ hazards' = [hazards EXCEPT ![h] = loadModel_rejected(@)]
    /\ UNCHANGED <<player, livesUI, running, tick, last, chain, win>>
    /\ UNCHANGED <<effectVars, platVars, animalVars, engineVars, flashVars, trace>>

\* Engine.stop: RanchGame.dispose and game = null
Stop ==
    /\ running
    /\ running' = FALSE
    /\ hazards' = [h \in HazardIds |-> hazard_dispose(hazards[h])]
    /\ LET fx == disposeSpines(Effects)
       IN  /\ activeSpines' = fx.active
           /\ meshSpines' = fx.mesh
           /\ releasedSpines' = fx.released
    /\ UNCHANGED <<player, livesUI, tick, last, chain, win, now, spawnLog, platVars, animalVars, engineVars, flashVars, trace>>

Next ==
    \/ Animate
    \/ \E h \in HazardIds : LoadResolve(h)
    \/ \E h \in HazardIds : LoadReject(h)
    \/ Stop

Spec == Init /\ [][Next]_vars

----------------------------------------------------------------------------
(* The player alone: update ticks and takeDamage() calls in any order *)

\* accumulated deltaTime, saturating at the cooldown duration
Cap(t) == IF t > damageCooldownTime THEN damageCooldownTime ELSE t

\* the claim's starting state for a sequence of takeDamage() calls
Fresh(p) == p.lives > 0 /\ p.damageCooldown <= 0

\* CowboyPlayer.update(dt) with no key held
PlayerUpdate ==
    \E dt \in DeltaTimes :
        /\ player' = CowboyPlayer_update(player, dt, KeysOnly({}))
        /\ last' = [op |-> "update", lives |-> player.lives,
                    cd |-> player.damageCooldown, dt |-> dt]
        /\ chain' = [chain EXCEPT !.since = Cap(@ + dt)]
        /\ win' = [win EXCEPT !.since = Cap(@ + dt)]
        /\ UNCHANGED <<hazards, livesUI, running, tick>>
        /\ UNCHANGED <<effectVars, platVars, animalVars, engineVars, flashVars, trace>>

\* CowboyPlayer.takeDamage()
PlayerTakeDamage ==
    /\ player' = takeDamage(player)
    /\ last' = [op |-> "takeDamage", lives |-> player.lives,
                cd |-> player.damageCooldown, dt |-> 0]
    /\ chain' = IF chain.base # -1 /\ chain.since < damageCooldownTime
                THEN [chain EXCEPT !.since = 0, !.multi = TRUE]
                ELSE IF Fresh(player)
                     THEN [base |-> player.lives, since |-> 0, multi |-> FALSE]
                     ELSE NoChain
    /\ win' = IF win.base # -1 /\ win.since < damageCooldownTime
              THEN [win EXCEPT !.multi = TRUE]
              ELSE IF Fresh(player)
                   THEN [base |-> player.lives, since |-> 0, multi |-> FALSE]
                   ELSE NoChain
    /\ UNCHANGED <<hazards, livesUI, running, tick>>
    /\ UNCHANGED <<effectVars, platVars, animalVars, engineVars, flashVars, trace>>

NextPlayer == PlayerUpdate \/ PlayerTakeDamage

SpecPlayer == Init /\ [][NextPlayer]_vars

----------------------------------------------------------------------------
(* The game with its spine effects: RanchGame.update with the spawn and
   fade of the spines, on a level whose loads are settled *)

MaxClock == 3750
MaxSpines == 4
EffectDeltas == {0, 750, 1500}

InitEffects ==
    /\ player = NewPlayer
    /\ \E assets \in {{"choya"}, {"barrel"}} :
           hazards = [h \in HazardIds |->
                        IF Level[h].kind \in assets
                        THEN loadModel_resolved(NewHazard(Level[h], TRUE))
                        ELSE NewHazard(Level[h], FALSE)]
    /\ livesUI = livesText(NewPlayer)
    /\ running = TRUE
    /\ tick = NoTick
    /\ last = NoCall
    /\ chain = NoChain
    /\ win = NoChain
    /\ activeSpines = << >>
    /\ meshSpines = {}
    /\ releasedSpines = {}
    /\ now = 0
    /\ spawnLog = << >>
    /\ scene = "ranch"
    /\ plat = Player_NewPlayer
    /\ platforms = << >>
    /\ ctl = NoCtl
    /\ animal = NoAnimal
    /\ atick = NoAnimalTick
    /\ EngineAside
    /\ FlashAside
    /\ trace = NoTrace

\* Engine.animate with a game: one RanchGame.update, Date.now() having
\* advanced by the frame's deltaTime
AnimateEffects ==
    /\ running
    /\ \E dt \in EffectDeltas, keys \in KeySets, rnd \in [HazardIds -> Randoms] :
         LET moved == CowboyPlayer_update(player, dt, KeysOnly(keys))
             res == RanchGame_update(player, hazards, livesUI, dt, KeysOnly(keys))
             t == now + dt
             fx == fadeSpines(spawnLoop(1, res.hits, rnd, t, Effects), t)
         IN  /\ \A h \in HazardIds \ res.hits : rnd[h] = 0
             /\ moved.x >= -ArenaMax /\ moved.x <= ArenaMax
             /\ moved.z >= -ArenaMax /\ moved.z <= ArenaMax
             /\ t <= MaxClock
             /\ Len(fx.active) <= MaxSpines
             /\ player' = res.player
             /\ livesUI' = res.livesUI
             /\ now' = t
             /\ activeSpines' = fx.active
             /\ meshSpines' = fx.mesh
             /\ releasedSpines' = fx.released
             /\ spawnLog' = fx.log
    /\ UNCHANGED <<hazards, running, tick, last, chain, win, platVars, animalVars, engineVars, flashVars, trace>>

NextEffects == AnimateEffects \/ Stop

SpecEffects == InitEffects /\ [][NextEffects]_vars

----------------------------------------------------------------------------
(* The platformer Player dropped at rest over a level and updated frame by
   frame, with at most the jump key held *)

\* the ground box and a ledge above it
groundConfig == [x |-> 0, y |-> -500, z |-> 0, sx |-> 100000, sy |-> 1000, sz |-> 100000]
ledgeConfig == [x |-> 5000, y |-> 1000, z |-> 0, sx |-> 4000, sy |-> 500, sz |-> 4000]
Ground == Platform_bounds(groundConfig)
Ledge == Platform_bounds(ledgeConfig)

PlatformLevels == {<<Ground>>, <<Ground, Ledge>>, <<Ledge>>}

\* heights the Player is released from, over the ledge
DropX == ledgeConfig.x
DropHeights == {2000, 5000, 9970}

\* ctl.t counts the updates up to SettleTicks
SettleTicks == 40

DropInputs == {KeysOnly({}), KeysOnly({"Space"})}

\* the ranch game, not driven
RanchAside ==
    /\ player = NewPlayer
    /\ hazards = [h \in HazardIds |-> NewHazard(Level[h], FALSE)]
    /\ livesUI = livesText(NewPlayer)
    /\ running = TRUE
    /\ tick = NoTick
    /\ last = NoCall
    /\ chain = NoChain
    /\ win = NoChain
    /\ activeSpines = << >>
    /\ meshSpines = {}
    /\ releasedSpines = {}
    /\ now = 0
    /\ spawnLog = << >>
    /\ animal = NoAnimal
    /\ atick = NoAnimalTick
    /\ EngineAside
    /\ FlashAside
    /\ trace = NoTrace

InitPlatform ==
    /\ RanchAside
    /\ scene = "platform"
    /\ platforms \in PlatformLevels
    /\ plat \in {Player_NewPlayer} \cup
                {[Player_NewPlayer EXCEPT !.x = DropX, !.y = h] : h \in DropHeights}
    /\ ctl = [NoCtl EXCEPT !.pre = plat, !.mid = plat, !.phys = plat, !.start = plat]

\* one Player.update with the input in
PlatStep(in) ==
    LET mid == Player_handleInput(plat, in)
        phys == Player_applyPhysics(mid)
    IN  /\ plat' = Player_update(plat, in, platforms)
        /\ ctl' = [t |-> IF ctl.t < SettleTicks THEN ctl.t + 1 ELSE ctl.t,
                   idle |-> ctl.idle /\ in = KeysOnly({}),
                   in |-> in, pre |-> plat, mid |-> mid, phys |-> phys,
                   landed |-> landedOn(phys, platforms),
                   start |-> ctl.start]

\* the platformer's update of its Player
DropTick ==
    /\ scene = "platform"
    /\ \E in \in DropInputs : PlatStep(in)
    /\ UNCHANGED <<player, hazards, livesUI, running, tick, last, chain, win>>
    /\ UNCHANGED <<effectVars, scene, platforms, animalVars, engineVars, flashVars, trace>>

NextPlatform == DropTick

SpecPlatform == InitPlatform /\ [][NextPlatform]_vars

----------------------------------------------------------------------------
(* Either controller updated frame by frame under keyboard, mouse,
   joystick and touch input *)

MaxCtlTicks == 4

\* desktop input with the pointer locked, and mobile input
Mouse(keys, d) == [KeysOnly(keys) EXCEPT !.locked = TRUE, !.mouse = d]
Mobile(j, b, d) ==
    [keys |-> {}, mobile |-> TRUE, joystick |-> j, jump |-> b,
     locked |-> FALSE, mouse |-> <<0, 0>>, touch |-> d]

CtlKeySets ==
    { {}, {"KeyW"}, {"KeyD"}, {"KeyS", "KeyA"}, {"KeyW", "KeyS"}, {"KeyA", "KeyD"},
      {"KeyW", "KeyA", "KeyS", "KeyD"}, {"Space"}, {"Space", "KeyW", "KeyS"} }
MouseDeltas == {<<0, -600>>, <<0, 400>>, <<300, 0>>}
Joysticks == {<<0, 0>>, <<1000, 0>>, <<-600, 600>>}
TouchDeltas == {<<0, 0>>, <<0, 300>>}

CtlInputs ==
    {KeysOnly(k) : k \in CtlKeySets}
    \cup {Mouse({}, d) : d \in MouseDeltas}
    \cup {Mobile(j, b, d) : j \in Joysticks, b \in BOOLEAN, d \in TouchDeltas}

\* frame deltaTime of the ranch controller
CtlDeltas == {250}

\* the Player at rest on the ledge, half a radius from its +x edge, after
\* walking there
EdgeRest ==
    [Player_NewPlayer EXCEPT !.x = Ledge.maxX + playerRadius - Player_speed,
                             !.y = Ledge.maxY + playerBottomOffset,
                             !.onGround = TRUE, !.rotation = 90]

InitControl ==
    /\ RanchAside
    /\ \/ /\ scene = "ranch"
          /\ plat = Player_NewPlayer
          /\ platforms = << >>
          /\ ctl = [NoCtl EXCEPT !.pre = player, !.mid = player, !.phys = player,
                                 !.start = player]
       \/ /\ scene = "platform"
          /\ platforms = <<Ground, Ledge>>
          /\ plat \in {Player_NewPlayer, EdgeRest}
          /\ ctl = [NoCtl EXCEPT !.pre = plat, !.mid = plat, !.phys = plat,
                                 !.start = plat]

\* the model moves a controller only while its camera yaw is 0
Steerable(p, in) == moveDirection(in) # <<0, 0>> => p.cameraRotationY = 0

\* one CowboyPlayer.update
CtlRanchTick ==
    /\ scene = "ranch"
    /\ ctl.t < MaxCtlTicks
    /\ \E dt \in CtlDeltas, in \in CtlInputs :
         LET mid == handleInput(updateCooldown(player, dt), in)
         IN  /\ Steerable(player, in)
             /\ player' = CowboyPlayer_update(player, dt, in)
             /\ ctl' = [t |-> ctl.t + 1,
                        idle |-> ctl.idle /\ in = KeysOnly({}),
                        in |-> in, pre |-> player, mid |-> mid,
                        phys |-> applyPhysics(mid), landed |-> {},
                        start |-> ctl.start]
    /\ UNCHANGED <<hazards, livesUI, running, tick, last, chain, win>>
    /\ UNCHANGED <<effectVars, scene, plat, platforms, animalVars, engineVars, flashVars, trace>>

\* one Player.update
CtlPlatTick ==
    /\ scene = "platform"
    /\ ctl.t < MaxCtlTicks
    /\ \E in \in CtlInputs : Steerable(plat, in) /\ PlatStep(in)
    /\ UNCHANGED <<player, hazards, livesUI, running, tick, last, chain, win>>
    /\ UNCHANGED <<effectVars, scene, platforms, animalVars, engineVars, flashVars, trace>>

NextControl == CtlRanchTick \/ CtlPlatTick

SpecControl == InitControl /\ [][NextControl]_vars

----------------------------------------------------------------------------
(* One animal of the ranch updated frame by frame *)

MaxAnimalTicks == 5
AnimalDeltas == {1000, 3500}

\* where the animal stands when the run starts
AnimalStarts == {<<1000, 1600>>, <<15998, 0>>, <<0, -16001>>, <<11313, 11313>>}

InitAnimals ==
    /\ player = NewPlayer
    /\ hazards = [h \in HazardIds |-> NewHazard(Level[h], FALSE)]
    /\ livesUI = livesText(NewPlayer)
    /\ running = TRUE
    /\ tick = NoTick
    /\ last = NoCall
    /\ chain = NoChain
    /\ win = NoChain
    /\ activeSpines = << >>
    /\ meshSpines = {}
    /\ releasedSpines = {}
    /\ now = 0
    /\ spawnLog = << >>
    /\ scene = "ranch"
    /\ plat = Player_NewPlayer
    /\ platforms = << >>
    /\ ctl = NoCtl
    /\ \E k \in DOMAIN Species, at \in AnimalStarts, h \in Headings :
           animal = [species |-> k, x |-> at[1], z |-> at[2],
                     wanderDirection |-> h, wanderTimer |-> 0]
    /\ atick = [t |-> 0, pre |-> animal, moved |-> animal, dt |-> 0, rnd |-> 0]
    /\ EngineAside
    /\ FlashAside
    /\ trace = NoTrace

\* the animal loops of RanchGame.update: one update of the animal
AnimalTick ==
    /\ running
    /\ atick.t < MaxAnimalTicks
    /\ \E dt \in AnimalDeltas, rnd \in Randoms, h \in Headings :
         /\ animal' = Animal_update(animal, dt, rnd, h)
         /\ atick' = [t |-> atick.t + 1, pre |-> animal,
                      moved |-> advance(wander(animal, dt, rnd, h)),
                      dt |-> dt, rnd |-> rnd]
    /\ UNCHANGED <<player, hazards, livesUI, running, tick, last, chain, win>>
    /\ UNCHANGED <<effectVars, platVars, engineVars, flashVars, trace>>

NextAnimals == AnimalTick

SpecAnimals == InitAnimals /\ [][NextAnimals]_vars

----------------------------------------------------------------------------
(* The Engine's render loop with the mouse events between the frames *)

Becomes(w) ==
    /\ engine' = w.engine
    /\ input' = w.input
    /\ raf' = w.raf
    /\ games' = w.games

\* main.ts calls engine.run(game) with a new game
EngineRun ==
    /\ raf.issued < MaxFrames
    /\ \E g \in GameIds :
         /\ ~games[g].started
         /\ Becomes(Engine_run(World, g))
         /\ elog' = [elog EXCEPT !.op = "run", !.n = 1, !.time = 0, !.prev = 0,
                                 !.game = g, !.idle = FALSE, !.locked = input.locked,
                                 !.replaced = @ \/ engine.game # 0,
                                 !.moves = 0, !.sum = <<0, 0>>,
                                 !.seenMoves = elog.moves, !.seenSum = elog.sum]
    /\ UNCHANGED clock
    /\ UNCHANGED <<player, hazards, livesUI, running, tick, last, chain, win>>
    /\ UNCHANGED <<effectVars, platVars, animalVars, flashVars, trace>>

\* the browser runs a waiting animation-frame callback: Engine.animate(time)
EngineFrame ==
    /\ raf.issued < MaxFrames
    /\ \E id \in raf.pending, gap \in FrameGaps :
         /\ clock' = clock + gap
         /\ Becomes(animate([World EXCEPT !.raf.pending = @ \ {id}], clock'))
         /\ elog' = [elog EXCEPT !.op = "frame", !.n = @ + 1, !.time = clock',
                                 !.prev = elog.time, !.game = engine.game,
                                 !.idle = FALSE, !.locked = input.locked,
                                 !.moves = 0, !.sum = <<0, 0>>,
                                 !.seenMoves = elog.moves, !.seenSum = elog.sum]
    /\ UNCHANGED <<player, hazards, livesUI, running, tick, last, chain, win>>
    /\ UNCHANGED <<effectVars, platVars, animalVars, flashVars, trace>>

\* engine.stop()
EngineStop ==
    /\ Becomes(Engine_stop(World))
    /\ elog' = [elog EXCEPT !.op = "stop", !.idle = (engine.game = 0)]
    /\ UNCHANGED clock
    /\ UNCHANGED <<player, hazards, livesUI, running, tick, last, chain, win>>
    /\ UNCHANGED <<effectVars, platVars, animalVars, flashVars, trace>>

\* engine.dispose()
EngineDispose ==
    /\ Becomes(Engine_dispose(World))
    /\ elog' = [elog EXCEPT !.op = "dispose", !.idle = (engine.game = 0)]
    /\ UNCHANGED clock
    /\ UNCHANGED <<player, hazards, livesUI, running, tick, last, chain, win>>
    /\ UNCHANGED <<effectVars, platVars, animalVars, flashVars, trace>>

\* a mousemove event on the document
MouseMove ==
    /\ elog.moves < MaxMoves
    /\ \E e \in MouseMoves :
         /\ input' = mousemove(input, e)
         /\ elog' = IF input.locked
                    THEN [elog EXCEPT !.moves = @ + 1,
                                      !.sum = <<@[1] + e[1], @[2] + e[2]>>]
                    ELSE elog
    /\ UNCHANGED <<engine, raf, games, clock>>
    /\ UNCHANGED <<player, hazards, livesUI, running, tick, last, chain, win>>
    /\ UNCHANGED <<effectVars, platVars, animalVars, flashVars, trace>>

\* a pointerlockchange event on the document
PointerLockChange ==
    /\ input' = [input EXCEPT !.locked = ~@]
    /\ UNCHANGED <<engine, raf, games, clock, elog>>
    /\ UNCHANGED <<player, hazards, livesUI, running, tick, last, chain, win>>
    /\ UNCHANGED <<effectVars, platVars, animalVars, flashVars, trace>>

NextEngine ==
    \/ EngineRun
    \/ EngineFrame
    \/ EngineStop
    \/ EngineDispose

NextMouse ==
    \/ EngineRun
    \/ EngineFrame
    \/ MouseMove
    \/ PointerLockChange

InitEngine ==
    /\ RanchAside
    /\ scene = "ranch"
    /\ plat = Player_NewPlayer
    /\ platforms = << >>
    /\ ctl = NoCtl

SpecEngine == InitEngine /\ [][NextEngine]_vars

SpecMouse == InitEngine /\ [][NextMouse]_vars

----------------------------------------------------------------------------
(* RanchGame.update as a whole: the player, the hazards, the spine effects
   and an animal, with the calls it makes written down in order *)

TickDeltas == {750, 1500}

\* a call made by RanchGame.update, h the hazard it is about or 0
Call(name, h) == [call |-> name, h |-> h]

onCollision_ifAccepted(s, i, rnd, t) ==
    LET p2 == takeDamage(s.player)
        spines == IF p2 # s.player THEN createSpineEffect(Level[i].kind, rnd[i]) ELSE 0
    IN  [s EXCEPT !.player = p2,
                  !.livesUI = livesText(p2),
                  !.results = Append(@, p2 # s.player),
                  !.hits = @ \cup {i},
                  !.fx = pushSpines(@, spines, t),
                  !.calls = @ \o <<Call("takeDamage", i), Call("updateLivesUI", i)>>
                              \o (IF p2 # s.player
                                  THEN <<Call("createSpineEffect", i)>> ELSE << >>)]

\* what a collision loop of RanchGame.update does when hazard i collides:
\* takeDamage, updateLivesUI, createSpineEffect and the push of its spines
onCollision(s, i, rnd, t) ==
    LET p2 == takeDamage(s.player)
        spines == createSpineEffect(Level[i].kind, rnd[i])
    IN  [s EXCEPT !.player = p2,
                  !.livesUI = livesText(p2),
                  !.results = Append(@, p2 # s.player),
                  !.hits = @ \cup {i},
                  !.fx = pushSpines(@, spines, t),
                  !.calls = @ \o <<Call("takeDamage", i),
                                   Call("updateLivesUI", i),
                                   Call("createSpineEffect", i)>>]

\* the two collision loops of RanchGame.update from hazard i on
RECURSIVE hazardLoop(_, _, _, _)
hazardLoop(i, s, rnd, t) ==
    IF i > Len(Level) THEN s
    ELSE LET checked == [s EXCEPT !.calls = Append(@, Call("checkCollision", i))]
         IN  IF checkCollision(s.hazards[i], s.player.x, s.player.y, s.player.z, getRadius)
             THEN hazardLoop(i + 1, onCollision(checked, i, rnd, t), rnd, t)
             ELSE hazardLoop(i + 1, checked, rnd, t)

\* the player's update of RanchGame.update
playerPhase(s, dt, in) ==
    [s EXCEPT !.player = CowboyPlayer_update(@, dt, in),
              !.calls = Append(@, Call("player.update", 0))]

\* the fade loop of RanchGame.update
effectPhase(s, t) ==
    [s EXCEPT !.fx = fadeSpines(@, t), !.calls = Append(@, Call("fade", 0))]

\* the animal loops of RanchGame.update
animalPhase(s, dt, arnd, h) ==
    [s EXCEPT !.animal = Animal_update(@, dt, arnd, h),
              !.calls = Append(@, Call("animal.update", 0))]

RanchGame_update_hazardsFirst(s, dt, in, rnd, arnd, h, t) ==
    animalPhase(effectPhase(playerPhase(hazardLoop(1, s, rnd, t), dt, in), t), dt, arnd, h)

\* RanchGame.update on s = [player, hazards, livesUI, fx, animal, results,
\* hits, calls] at Date.now() = t
RanchGame_update_all(s, dt, in, rnd, arnd, h, t) ==
    animalPhase(effectPhase(hazardLoop(1, playerPhase(s, dt, in), rnd, t), t), dt, arnd, h)

\* Engine.animate with a game: one RanchGame.update
FullTick ==
    /\ running
    /\ \E dt \in TickDeltas, keys \in KeySets, rnd \in [HazardIds -> Randoms] :
         LET t == now + dt
             moved == CowboyPlayer_update(player, dt, KeysOnly(keys))
             res == RanchGame_update_all(
                        [player |-> player, hazards |-> hazards, livesUI |-> livesUI,
                         fx |-> Effects, animal |-> animal, results |-> << >>,
                         hits |-> {}, calls |-> << >>],
                        dt, KeysOnly(keys), rnd, 0, animal.wanderDirection, t)
         IN  /\ \A h \in HazardIds \ res.hits : rnd[h] = 0
             /\ moved.x >= -ArenaMax /\ moved.x <= ArenaMax
             /\ moved.z >= -ArenaMax /\ moved.z <= ArenaMax
             /\ t <= MaxClock
             /\ Len(res.fx.active) <= MaxSpines
             /\ player' = res.player
             /\ livesUI' = res.livesUI
             /\ now' = t
             /\ activeSpines' = res.fx.active
             /\ meshSpines' = res.fx.mesh
             /\ releasedSpines' = res.fx.released
             /\ spawnLog' = res.fx.log
             /\ animal' = res.animal
             /\ atick' = [t |-> atick.t + 1, pre |-> animal,
                          moved |-> advance(wander(animal, dt, 0, animal.wanderDirection)),
                          dt |-> dt, rnd |-> 0]
             /\ tick' = [n |-> 1, lives |-> moved.lives, cd |-> moved.damageCooldown,
                         results |-> res.results, hits |-> res.hits,
                         near |-> {h \in HazardIds :
                                     withinReach(hazards[h], moved.x, moved.y, moved.z, getRadius)},
                         loaded |-> {h \in HazardIds : hazards[h].modelLoaded}]
             /\ trace' = [calls |-> res.calls, rnd |-> rnd,
                          before |-> Len(spawnLog), at |-> t, pre |-> player]
    /\ UNCHANGED <<hazards, running, last, chain, win>>
    /\ UNCHANGED <<platVars, engineVars, flashVars>>

NextTick == FullTick

SpecTick == InitEffects /\ [][NextTick]_vars

----------------------------------------------------------------------------
(* The damage flash: CowboyPlayer.update and takeDamage() called in any
   order while the browser runs the timer callbacks that are due *)

MaxFlashClock == 2400
FlashDeltas == {100, 1000}

\* CowboyPlayer.takeDamage() at wall-clock time t on w = [player, body, timers]:
\* an accepted call paints the body and sets a timer that holds the colour
\* the body had
takeDamage_flash(w, t) ==
    LET p2 == takeDamage(w.player)
    IN  IF p2 # w.player
        THEN [player |-> p2,
              body   |-> flashColor,
              timers |-> w.timers \cup {[due |-> t + flashDelay, color |-> w.body]}]
        ELSE w

\* the callback takeDamage() gave to setTimeout
flashTimeout(w, tm) == [w EXCEPT !.body = tm.color, !.timers = @ \ {tm}]

\* the timer the browser runs next: the one that was set first
nextTimer(ts) == CHOOSE tm \in ts : \A o \in ts : tm.due <= o.due

InitFlash ==
    /\ RanchAside
    /\ scene = "ranch"
    /\ plat = Player_NewPlayer
    /\ platforms = << >>
    /\ ctl = NoCtl

\* a frame: deltaTime of wall-clock time has passed, CowboyPlayer.update runs
FlashUpdate ==
    /\ \E dt \in FlashDeltas :
         /\ now + dt <= MaxFlashClock
         /\ now' = now + dt
         /\ player' = CowboyPlayer_update(player, dt, KeysOnly({}))
         /\ last' = [op |-> "update", lives |-> player.lives,
                     cd |-> player.damageCooldown, dt |-> dt]
    /\ UNCHANGED <<hazards, livesUI, running, tick, chain, win>>
    /\ UNCHANGED <<activeSpines, meshSpines, releasedSpines, spawnLog>>
    /\ UNCHANGED <<platVars, animalVars, engineVars, flashVars, trace>>

\* CowboyPlayer.takeDamage()
FlashDamage ==
    /\ LET w == takeDamage_flash([player |-> player, body |-> body, timers |-> timers], now)
       IN  /\ player' = w.player
           /\ body' = w.body
           /\ timers' = w.timers
    /\ last' = [op |-> "takeDamage", lives |-> player.lives,
                cd |-> player.damageCooldown, dt |-> 0]
    /\ UNCHANGED <<hazards, livesUI, running, tick, chain, win>>
    /\ UNCHANGED <<effectVars, platVars, animalVars, engineVars, trace>>

\* the browser runs the timer callback that is due
FlashTimeout ==
    /\ timers # {}
    /\ nextTimer(timers).due <= now
    /\ LET w == flashTimeout([player |-> player, body |-> body, timers |-> timers],
                             nextTimer(timers))
       IN  /\ body' = w.body
           /\ timers' = w.timers
    /\ last' = [last EXCEPT !.op = "timeout"]
    /\ UNCHANGED <<player, hazards, livesUI, running, tick, chain, win>>
    /\ UNCHANGED <<effectVars, platVars, animalVars, engineVars, trace>>

NextFlash == FlashUpdate \/ FlashDamage \/ FlashTimeout

SpecFlash == InitFlash /\ [][NextFlash]_vars

----------------------------------------------------------------------------
(* The CowboyPlayer jumping on the spot: updates with the jump requested or
   not, by the keyboard or the touch button.  ctl.t counts the updates since
   the controller left the ground, ctl.idle says that no jump was requested
   in them after the first. *)

MaxJumpTicks == 60
JumpInputs == {KeysOnly({}), KeysOnly({"Space"}), Mobile(<<0, 0>>, TRUE, <<0, 0>>)}

InitJump ==
    /\ RanchAside
    /\ scene = "ranch"
    /\ plat = Player_NewPlayer
    /\ platforms = << >>
    /\ ctl = [NoCtl EXCEPT !.pre = player, !.mid = player, !.phys = player,
                           !.start = player]

\* one CowboyPlayer.update
JumpTick ==
    /\ scene = "ranch"
    /\ ctl.t < MaxJumpTicks
    /\ \E dt \in CtlDeltas, in \in JumpInputs :
         LET mid == handleInput(updateCooldown(player, dt), in)
         IN  /\ player' = CowboyPlayer_update(player, dt, in)
             /\ ctl' = [t |-> IF player.onGround
                              THEN (IF mid.onGround THEN 0 ELSE 1)
                              ELSE ctl.t + 1,
                        idle |-> player.onGround \/ (ctl.idle /\ ~shouldJump(in)),
                        in |-> in, pre |-> player, mid |-> mid,
                        phys |-> applyPhysics(mid), landed |-> {},
                        start |-> ctl.start]
    /\ UNCHANGED <<hazards, livesUI, running, tick, last, chain, win>>
    /\ UNCHANGED <<effectVars, scene, plat, platforms, animalVars, engineVars, flashVars, trace>>

NextJump == JumpTick

SpecJump == InitJump /\ [][NextJump]_vars

----------------------------------------------------------------------------
(* Claims *)

\* C1: Dead is absorbing: once lives is 0 it is 0 in every later state, for
\* any sequence of update ticks and takeDamage() calls.
C1_DeadAbsorbing == [][player.lives = 0 => player'.lives = 0]_vars

\* a takeDamage() call was made on a dead player
C1_Witness == player.lives = 0 /\ last.op = "takeDamage" /\ last.lives = 0

\* C2: takeDamage() called while damageCooldown > 0 or lives = 0 leaves lives
\* and damageCooldown unchanged.
C2_RejectedIsNoOp ==
    (last.op = "takeDamage" /\ (last.cd > 0 \/ last.lives = 0))
        => (player.lives = last.lives /\ player.damageCooldown = last.cd)

\* a call made during the cooldown with lives left
C2_Witness == last.op = "takeDamage" /\ last.cd > 0 /\ last.lives > 0

\* C3: takeDamage() called with the cooldown expired and lives > 0 takes
\* exactly one life and sets damageCooldown to damageCooldownTime.
C3_AcceptedEffect ==
    (last.op = "takeDamage" /\ last.cd <= 0 /\ last.lives > 0)
        => (player.lives = last.lives - 1 /\ player.damageCooldown = damageCooldownTime)

\* an accepted call made after the cooldown ran below zero
C3_Witness == last.op = "takeDamage" /\ last.cd < 0 /\ last.lives = 2 /\ player.lives = 1

\* number of accepted takeDamage() calls of the last tick
Accepted(t) == Cardinality({k \in 1..Len(t.results) : t.results[k]})

\* C4: within one RanchGame.update lives decrease by at most 1 however many
\* hazards overlap the player; with lives > 0 and the cooldown expired at the
\* collision checks the first takeDamage() is accepted and every later one
\* of that tick is rejected.
C4_OneDamagePerTick ==
    tick.n = 1 =>
        /\ Accepted(tick) <= 1
        /\ player.lives >= tick.lives - 1
        /\ (tick.lives > 0 /\ tick.cd <= 0 /\ Len(tick.results) >= 1) =>
               /\ tick.results[1]
               /\ \A k \in 2..Len(tick.results) : ~tick.results[k]
               /\ player.lives = tick.lives - 1
               /\ player.damageCooldown > 0

\* three hazards overlapped the player in one tick, with 3 lives and the
\* cooldown expired
C4_Witness ==
    /\ tick.n = 1 /\ tick.lives = maxLives /\ tick.cd <= 0
    /\ Len(tick.results) = 3 /\ player.lives = 2

\* C5 as stated: in a sequence of takeDamage() calls each less than the
\* cooldown duration after the previous call, starting with lives > 0 and
\* the cooldown expired, lives decrease by exactly 1 in total.
C5_Original == chain.base # -1 => player.lives = chain.base - 1

\* C5 amended: in a sequence of takeDamage() calls that all come less than
\* the cooldown duration after the first call of the sequence, starting with
\* lives > 0 and the cooldown expired, lives decrease by exactly 1 in total.
C5_CooldownWindow ==
    (win.base # -1 /\ win.since < damageCooldownTime) => player.lives = win.base - 1

\* a second call was made inside the window, some time after the first
C5_Witness ==
    /\ win.base # -1 /\ win.multi /\ win.since > 0 /\ win.since < damageCooldownTime
    /\ last.op = "takeDamage"

\* C6: lives is an integer in 0..3, starts at 3, never increases and
\* changes only by a decrement of 1 inside takeDamage().
C6_LivesRange ==
    /\ player.lives = maxLives
    /\ [](player.lives \in 0..maxLives)
    /\ [][player'.lives # player.lives =>
             (player'.lives = player.lives - 1 /\ last'.op = "takeDamage")]_vars

\* the last life was taken by a takeDamage() call
C6_Witness == player.lives = 0 /\ last.op = "takeDamage" /\ last.lives = 1

\* C7 as stated: damageCooldown is >= 0 in every reachable state.
C7_Original == player.damageCooldown >= 0

\* largest deltaTime of the model
MaxDelta == CHOOSE d \in DeltaTimes : \A e \in DeltaTimes : e <= d

\* C7 amended: an update tick subtracts deltaTime from a positive
\* damageCooldown without a floor, and leaves a damageCooldown <= 0 as it is;
\* damageCooldown stays above -deltaTime and at most damageCooldownTime.
C7_CooldownDecrement ==
    /\ player.damageCooldown <= damageCooldownTime
    /\ player.damageCooldown > -MaxDelta
    /\ (last.op = "update" /\ last.cd > 0) => player.damageCooldown = last.cd - last.dt
    /\ (last.op = "update" /\ last.cd <= 0) => player.damageCooldown = last.cd

\* an update tick took the cooldown below zero
C7_Witness == last.op = "update" /\ last.cd > 0 /\ player.damageCooldown < 0

\* C8: a hazard whose model is not loaded returns false from checkCollision
\* for every actor position and radius, also when the actor overlaps it, and
\* no hit of a tick comes from a hazard that was not loaded.
C8_InertBeforeLoad ==
    /\ \A h \in HazardIds :
         ~hazards[h].modelLoaded =>
             \A px \in ProbeXs, py \in ProbeYs, r \in ProbeRadii :
                 ~checkCollision(hazards[h], px, py, 0, r)
    /\ tick.hits \subseteq tick.loaded

\* a tick ran with the player inside the reach of a hazard still loading,
\* and that hazard did not hit
C8_Witness ==
    /\ tick.n = 1
    /\ \E h \in tick.near :
         /\ hazards[h].load = "pending"
         /\ h \notin tick.hits
         /\ withinReach(hazards[h], player.x, player.y, player.z, getRadius)

\* the load of hazard h ended without a model
Failed(h) == hazards[h].load \in {"notfound", "failed"}

\* C9: a hazard whose asset is missing or whose load fails stays inert for
\* ever, no error leaves loadModel, and the ticks go on for the others.
C9_FailedLoadInert ==
    /\ [](\A h \in HazardIds :
            Failed(h) =>
                /\ ~hazards[h].modelLoaded /\ ~hazards[h].mesh /\ ~hazards[h].inScene
                /\ ~hazards[h].threw
                /\ h \notin tick.hits
                /\ \A px \in ProbeXs, py \in ProbeYs, r \in ProbeRadii :
                      ~checkCollision(hazards[h], px, py, 0, r))
    /\ [][\A h \in HazardIds : Failed(h) => hazards'[h].load = hazards[h].load]_vars
    /\ []((running /\ \E h \in HazardIds : Failed(h)) => ENABLED Animate)
    /\ [](tick.hits = tick.near \cap tick.loaded)

\* a tick ran with the player inside the reach of a hazard whose load had
\* failed and of a loaded one: only the loaded one hit
C9_Witness ==
    /\ tick.n = 1
    /\ \E h \in tick.near : hazards[h].load = "failed" /\ h \notin tick.hits
    /\ tick.hits # {}

\* C10: a load that completes after its hazard was disposed is a no-op: the
\* mesh is not added to the scene, the hazard is not marked loaded, and no
\* fault is raised.
C10_LateLoadNoOp ==
    \A h \in HazardIds :
        hazards[h].disposedInFlight =>
            (~hazards[h].inScene /\ ~hazards[h].modelLoaded /\ ~hazards[h].threw)

\* the spine of rank id is on activeSpines / its opacity there
IsActive(id) == \E k \in 1..Len(activeSpines) : activeSpines[k].id = id
OpacityOf(id) ==
    LET k == CHOOSE j \in 1..Len(activeSpines) : activeSpines[j].id = id
    IN  activeSpines[k].opacity

\* C11: while the game runs, a spine created at t0 is, after every tick at a
\* time t < t0 + fadeDuration, on activeSpines and on the player's mesh with
\* opacity 1 - (t - t0)/fadeDuration > 0, and after a tick at t >= t0 +
\* fadeDuration it is off activeSpines, off the mesh and disposed.
C11_EffectLifetime ==
    running =>
        \A id \in 1..Len(spawnLog) :
            LET elapsed == now - spawnLog[id]
            IN  IF elapsed < fadeDuration
                THEN /\ IsActive(id)
                     /\ OpacityOf(id) = fadeDuration - elapsed
                     /\ OpacityOf(id) > 0
                     /\ id \in meshSpines
                     /\ id \notin releasedSpines
                ELSE /\ ~IsActive(id)
                     /\ id \notin meshSpines
                     /\ id \in releasedSpines

\* a spine expired at exactly its fadeDuration while a younger one is half faded
C11_Witness ==
    /\ running
    /\ \E id \in releasedSpines : now - spawnLog[id] = fadeDuration
    /\ \E k \in 1..Len(activeSpines) :
           activeSpines[k].opacity > 0 /\ activeSpines[k].opacity < fadeDuration

\* C12: after RanchGame.dispose activeSpines is empty, and every spine ever
\* created, the unexpired ones included, is off the player's mesh and disposed.
C12_DisposePurges ==
    ~running =>
        /\ activeSpines = << >>
        /\ meshSpines = {}
        /\ releasedSpines = 1..Len(spawnLog)

\* the game was disposed with a spine created less than fadeDuration ago
C12_Witness ==
    /\ ~running
    /\ \E id \in 1..Len(spawnLog) :
           now - spawnLog[id] < fadeDuration /\ id \in releasedSpines

\* the bounds under the place p, and the highest of them
BoundsUnder(p) ==
    {i \in 1..Len(platforms) :
        overlapsXZ(p, platforms[i]) /\ platforms[i].maxY + playerBottomOffset <= p.y}
HighestUnder(p) ==
    CHOOSE i \in BoundsUnder(p) : \A j \in BoundsUnder(p) : platforms[j].maxY <= platforms[i].maxY
RestsOn(b) ==
    plat.y = b.maxY + playerBottomOffset /\ plat.vy = 0 /\ plat.onGround

\* C13: a Player released at rest above a bound that covers its footprint
\* and updated with no input rests on that bound, at y = max.y + 0.3 with
\* velocity.y = 0 and onGround, after SettleTicks updates at the latest,
\* whatever the height it was released from.
C13_GroundingConvergence ==
    (ctl.idle /\ ctl.t >= SettleTicks /\ BoundsUnder(ctl.start) # {})
        => RestsOn(platforms[HighestUnder(ctl.start)])

HasGround == \E i \in 1..Len(platforms) : platforms[i] = Ground

\* C14: the Player constructed at (0, 2, 0) with zero velocity over the
\* ground bound (y from -1 to 0) and updated without jump input rests at
\* y = 0 + 0.3 with onGround after SettleTicks updates, and an update without
\* jump input of a Player resting there ends with the same position.y,
\* velocity.y = 0 and onGround.
C14_RestingFixpoint ==
    /\ []((ctl.start = Player_NewPlayer /\ HasGround /\ ctl.idle /\ ctl.t >= SettleTicks)
            => RestsOn(Ground))
    /\ [][(ctl.start = Player_NewPlayer /\ HasGround /\ RestsOn(Ground)
              /\ ~shouldJump(ctl'.in))
            => (plat'.y = plat.y /\ plat'.vy = 0 /\ plat'.onGround)]_vars

\* the Player from (0, 2, 0) rests on the ground and its last update, with
\* no input, started from the same state
C14_Witness ==
    /\ ctl.start = Player_NewPlayer /\ HasGround
    /\ ctl.idle /\ ctl.t >= SettleTicks
    /\ RestsOn(Ground) /\ plat.y = playerBottomOffset
    /\ ctl.pre = plat

\* in the last update gravity took position.y below the death floor
Fell == ctl.t > 0 /\ ctl.mid.y + (ctl.mid.vy + Player_gravity) < deathFloorY

Cur == IF scene = "ranch" THEN player ELSE plat
CurGravity == IF scene = "ranch" THEN gravity ELSE Player_gravity
CurJumpForce == IF scene = "ranch" THEN jumpForce ELSE Player_jumpForce

\* C15: in an update that starts with onGround false, a jump request leaves
\* velocity.y as it was after handleInput, and applyPhysics then adds
\* gravity to it; handleInput sets velocity.y = jumpForce and onGround =
\* false exactly when the jump is requested and the update starts grounded.
C15_JumpNeedsGround ==
    ctl.t > 0 =>
        IF shouldJump(ctl.in) /\ ctl.pre.onGround
        THEN ctl.mid.vy = CurJumpForce /\ ~ctl.mid.onGround
        ELSE /\ ctl.mid.vy = ctl.pre.vy
             /\ ctl.mid.onGround = ctl.pre.onGround
             /\ ctl.phys.vy = ctl.pre.vy + CurGravity

\* the jump was requested again while the controller was rising
C15_Witness ==
    /\ ctl.t > 0
    /\ shouldJump(ctl.in) /\ ~ctl.pre.onGround /\ ctl.pre.vy > 0
    /\ ctl.phys.vy = ctl.pre.vy + CurGravity

\* C17: at the end of every update, the ranch controller has position.y >=
\* groundY and onGround exactly when position.y = groundY, with velocity.y =
\* 0 then; the platformer Player has onGround exactly when some bound passed
\* the landing test of that update.
C17_GroundedRecomputed ==
    ctl.t > 0 =>
        IF scene = "ranch"
        THEN /\ player.y >= groundY
             /\ player.onGround <=> (player.y = groundY)
             /\ player.onGround => player.vy = 0
        ELSE plat.onGround <=> (ctl.landed # {})

\* the Player walked off the ledge: grounded before, no jump, no bound under it now
C17_Witness ==
    /\ ctl.t > 0 /\ scene = "platform"
    /\ ctl.pre.onGround /\ ~shouldJump(ctl.in)
    /\ ~plat.onGround /\ ctl.landed = {}

\* C18: the camera pitch of both controllers is within [-pi/3, pi/3] in
\* every state, whatever the mouse and touch deltas were.
C18_PitchClamped ==
    /\ player.cameraRotationX >= -pitchLimit /\ player.cameraRotationX <= pitchLimit
    /\ plat.cameraRotationX >= -pitchLimit /\ plat.cameraRotationX <= pitchLimit

\* a touch drag on the mobile path took the pitch past -pi/3 and it was clamped
C18_Witness ==
    /\ ctl.t > 0 /\ ctl.in.mobile
    /\ ctl.pre.cameraRotationX - ctl.in.touch[2] * touchSensitivity < -pitchLimit
    /\ Cur.cameraRotationX = -pitchLimit

\* C19: in an update whose moveDirection is the zero vector (no key,
\* opposing keys, a centred joystick) handleInput leaves position.x,
\* position.z and rotation as they were, and so does the whole update; the
\* movement branch with its normalize() is not entered.
C19_ZeroIntentNoMove ==
    (ctl.t > 0 /\ moveDirection(ctl.in) = <<0, 0>>) =>
        /\ ctl.mid.x = ctl.pre.x /\ ctl.mid.z = ctl.pre.z
        /\ ctl.mid.rotation = ctl.pre.rotation
        /\ Cur.x = ctl.pre.x /\ Cur.z = ctl.pre.z
        /\ Cur.rotation = ctl.pre.rotation

\* W and S were held together by a controller that faced away from rotation 0
C19_Witness ==
    /\ ctl.t > 0
    /\ {"KeyW", "KeyS"} \subseteq ctl.in.keys /\ ~ctl.in.mobile
    /\ ctl.pre.rotation # 0
    /\ Cur.rotation = ctl.pre.rotation /\ Cur.x = ctl.pre.x /\ Cur.z = ctl.pre.z

\* the directions <<a1, b1>> and <<a2, b2>> stand for the same angle
SameAngle(d, e) ==
    d[1] * e[2] = d[2] * e[1] /\ d[1] * e[1] + d[2] * e[2] > 0

\* C20: at the end of every update in which the animal's distance from the
\* origin after its move exceeds 80, wanderDirection is atan2(-x, -z) of
\* that position, and the position is the one the move reached.
C20_TurnBack ==
    (atick.t > 0 /\ beyondRange(atick.moved)) =>
        /\ SameAngle(animal.wanderDirection, <<-animal.x, -animal.z>>)
        /\ animal.x = atick.moved.x /\ animal.z = atick.moved.z
        /\ beyondRange(animal)

\* an animal that was within range walked past it along +x, off the axes
C20_Witness ==
    /\ atick.t > 0
    /\ ~beyondRange(atick.pre) /\ beyondRange(animal)
    /\ animal.x > 0 /\ animal.z > 0
    /\ animal.wanderDirection = <<-animal.x, -animal.z>>

\* the square of the animal's distance from the origin
DistSq(a) == a.x * a.x + a.z * a.z

\* C21: an animal whose distance from the origin exceeds 80 at the end of an
\* update is not farther from the origin at the end of the next update.
C21_BoundaryRecovery ==
    (atick.t >= 2 /\ beyondRange(atick.pre)) => DistSq(animal) <= DistSq(atick.pre)

\* the wander timer of the last update after deltaTime was added
Timed == atick.pre.wanderTimer + atick.dt
Least == Species[animal.species].least
Most == Species[animal.species].least + Species[animal.species].width

\* C22: an update adds deltaTime to wanderTimer, and resets it to 0 exactly
\* when the sum exceeds the threshold drawn in that update; a sum at or below
\* the species' least threshold never resets it and leaves the heading to
\* the move, a sum above the species' greatest threshold always resets it,
\* and wanderTimer never ends an update above the greatest threshold.
C22_WanderTimer ==
    atick.t > 0 =>
        /\ animal.wanderTimer =
              IF Timed > Least + (atick.rnd * (Most - Least)) \div 1000 THEN 0 ELSE Timed
        /\ Timed <= Least =>
              /\ animal.wanderTimer = Timed
              /\ atick.moved.wanderDirection = atick.pre.wanderDirection
        /\ Timed > Most => animal.wanderTimer = 0
        /\ animal.wanderTimer <= Most

\* a horse's timer reached exactly 3 s in an update that drew the least threshold
C22_Witness ==
    /\ atick.t > 0 /\ animal.species = "horse"
    /\ atick.rnd = 0 /\ Timed = Least
    /\ animal.wanderTimer = Least


\* the deltaTime the game received in the last frame
Received == games[elog.game].deltaTime

\* a frame has just updated a game
Framed == elog.op \in {"run", "frame"} /\ elog.game # 0

Rank(c) ==
    CASE c.call = "player.update" -> 1
      [] c.call \in {"checkCollision", "takeDamage", "updateLivesUI", "createSpineEffect"} -> 2
      [] c.call = "fade" -> 3
      [] c.call = "animal.update" -> 4

\* C24: within every RanchGame.update the player is updated first, then every
\* hazard is checked against the player's position as updated in that tick,
\* then the effects are aged and culled, then the animals are updated; no call
\* of a later phase comes before a call of an earlier phase.
C24_TickOrdering ==
    trace.calls # << >> =>
        /\ \A i, j \in DOMAIN trace.calls :
               i < j => Rank(trace.calls[i]) <= Rank(trace.calls[j])
        /\ {Rank(trace.calls[i]) : i \in DOMAIN trace.calls} = 1 .. 4
        /\ \A h \in HazardIds : Call("checkCollision", h) \in
               {trace.calls[i] : i \in DOMAIN trace.calls}
        /\ tick.hits = {h \in tick.loaded :
               withinReach(hazards[h], player.x, player.y, player.z, getRadius)}

\* a hazard was hit in the tick in which the player walked into its reach
C24_Witness ==
    /\ trace.calls # << >>
    /\ \E h \in tick.hits :
           ~withinReach(hazards[h], trace.pre.x, trace.pre.y, trace.pre.z, getRadius)


\* how often RanchGame.update made the call name for hazard h
Count(name, h) ==
    Cardinality({i \in DOMAIN trace.calls : trace.calls[i] = Call(name, h)})

\* the spines the hazards of hs returned
RECURSIVE Returned(_)
Returned(hs) ==
    IF hs = {} THEN 0
    ELSE LET h == CHOOSE x \in hs : TRUE
         IN  createSpineEffect(Level[h].kind, trace.rnd[h]) + Returned(hs \ {h})

\* the hazards whose checkCollision is true for the player
Colliding ==
    {h \in HazardIds :
        checkCollision(hazards[h], player.x, player.y, player.z, getRadius)}

\* C25: for every hazard whose checkCollision is true in a tick,
\* RanchGame.update calls takeDamage() once and createSpineEffect once, whether
\* or not the damage is accepted, and every spine returned is on activeSpines
\* with startTime = Date.now() and fadeDuration = 3000; for a hazard that does
\* not collide neither is called.
C25_SpinesPerHit ==
    trace.calls # << >> =>
        /\ tick.hits = Colliding
        /\ \A h \in HazardIds :
               /\ Count("takeDamage", h) = (IF h \in Colliding THEN 1 ELSE 0)
               /\ Count("createSpineEffect", h) = (IF h \in Colliding THEN 1 ELSE 0)
        /\ Len(tick.results) = Cardinality(Colliding)
        /\ Len(spawnLog) = trace.before + Returned(Colliding)
        /\ \A k \in (trace.before + 1) .. Len(spawnLog) :
               /\ spawnLog[k] = now
               /\ \E j \in DOMAIN activeSpines :
                      /\ activeSpines[j].id = k
                      /\ activeSpines[j].startTime = now
                      /\ activeSpines[j].fadeDuration = 3000
               /\ k \in meshSpines

\* a collision whose damage was rejected still left its spines
C25_Witness ==
    /\ trace.calls # << >>
    /\ \E k \in DOMAIN tick.results : ~tick.results[k]
    /\ Len(spawnLog) > trace.before
    /\ HazardIds \ Colliding # {}


\* C26: at the end of every update tick the lives display agrees with the
\* player: it shows the number of lives while lives > 0 and the game-over
\* text, not the number 0, when lives = 0.
C26_LivesDisplay ==
    tick.n = 1 =>
        /\ player.lives > 0 => livesUI = [text |-> "Vidas", n |-> player.lives]
        /\ player.lives = 0 => livesUI.text = "GameOver"

\* the tick that took the last life left the game-over text
C26_Witness ==
    /\ tick.n = 1 /\ tick.lives = 1 /\ player.lives = 0
    /\ livesUI.text = "GameOver"


\* C27: the mouse delta a frame reads is the sum of the movements of all the
\* pointer-locked mousemove events since the reset of the frame before, and
\* zero when there was none.
C27_MouseDelta ==
    (Framed /\ elog.locked) => games[elog.game].mouse = elog.seenSum


\* C28: the damage flash reverts by itself: whatever the order of update
\* ticks, takeDamage() calls and timer callbacks, once no timer callback is
\* left to run the body has its original colour again.
C28_FlashReverts == timers = {} => body = bodyColor


\* C29: after Engine.stop() or Engine.dispose() no animation-frame callback is
\* left scheduled and no game is updated any more; every game given to run()
\* is disposed once when it stops being the engine's game, also when run()
\* replaces a running game and when stop() or dispose() is called again.
C29_Lifecycle ==
    /\ elog.op \in {"stop", "dispose"} => engine.game = 0
    /\ engine.game = 0 => raf.pending = {} /\ engine.animationId = 0
    /\ \A g \in GameIds :
           /\ games[g].late = 0
           /\ games[g].disposed =
                  (IF games[g].started /\ engine.game # g THEN 1 ELSE 0)

\* stop() or dispose() was called on a stopped engine after run() had replaced
\* a running game, and both games had been updated by animation frames
C29_Witness ==
    /\ elog.op \in {"stop", "dispose"} /\ elog.idle /\ elog.replaced
    /\ \A g \in {1, 2} : games[g].updates >= 2 /\ games[g].disposed = 1


\* the number of updates a jump from the ground takes
FlightTicks == (2 * jumpForce) \div (0 - gravity)

\* C30: a jump of the ranch controller from the ground is over after a bounded
\* number of updates, the controller then has onGround = true, position.y =
\* groundY and velocity.y = 0; while it is in the air a jump request starts no
\* second jump; position.y is never below groundY at the end of an update.
C30_JumpCycle ==
    /\ player.y >= groundY
    /\ ctl.t <= FlightTicks
    /\ ctl.t = FlightTicks => player.onGround
    /\ player.onGround => player.y = groundY /\ player.vy = 0
    /\ ~ctl.pre.onGround => ctl.mid.vy = ctl.pre.vy /\ ~ctl.mid.onGround

\* a jump with no jump request after it has landed in its last update
C30_Witness ==
    /\ ctl.t = FlightTicks /\ ctl.idle
    /\ player.onGround /\ player.y = groundY /\ player.vy = 0
    /\ ctl.phys.y < groundY

====
